---- MODULE Spec2Model ----
(***************************************************************************)
(* Model of the rust-docs MCP server's scraping layer (service.ts), its    *)
(* two fetch adapters (utils/http-client.ts, utils/crates-io-client.ts)    *)
(* and the upstream they talk to.                                          *)
(*                                                                         *)
(* Strings are sequences of tokens: a token is one atom of text ("/" is    *)
(* the path separator, ".." a parent segment, " " whitespace, any other    *)
(* token a run of ordinary characters).  Template literals concatenate.    *)
(***************************************************************************)
EXTENDS Integers, Sequences, FiniteSets, TLC

\* ------------------------------------------------------------------------
\* Bounds of the model
\* ------------------------------------------------------------------------

\* longest page (in top-level elements) the upstream sends
MaxElems == 2

\* most abort timers left pending by calls that already settled
MaxStale == 1

\* ------------------------------------------------------------------------
\* Strings
\* ------------------------------------------------------------------------

\* the value of an omitted optional argument
Undefined == <<"<undefined>">>

WhiteSpace == {" ", "\n\n"}

RECURSIVE TrimStart(_)
TrimStart(s) ==
  IF s # <<>> /\ Head(s) \in WhiteSpace THEN TrimStart(Tail(s)) ELSE s

RECURSIVE TrimEnd(_)
TrimEnd(s) ==
  IF s # <<>> /\ s[Len(s)] \in WhiteSpace
  THEN TrimEnd(SubSeq(s, 1, Len(s) - 1))
  ELSE s

\* String.prototype.trim
Trim(s) == TrimEnd(TrimStart(s))

\* !s?.trim() : undefined, empty and whitespace-only strings are falsy
IsBlank(s) == s = Undefined \/ Trim(s) = <<>>

\* s || dflt : undefined and the empty string select the default
OrDefault(s, dflt) == IF s = Undefined \/ s = <<>> THEN dflt ELSE s

\* msg.includes(part)
Includes(msg, part) ==
  \E i \in 0..(Len(msg) - Len(part)) : SubSeq(msg, i + 1, i + Len(part)) = part

RECURSIVE Join(_, _)
\* Array.prototype.join
Join(strs, sep) ==
  IF strs = <<>> THEN <<>>
  ELSE IF Len(strs) = 1 THEN strs[1]
  ELSE strs[1] \o sep \o Join(Tail(strs), sep)

RECURSIVE Flatten(_)
\* the concatenation of a sequence of sequences
Flatten(seqs) == IF seqs = <<>> THEN <<>> ELSE Head(seqs) \o Flatten(Tail(seqs))

\* ------------------------------------------------------------------------
\* URLs: new URL(path, base) of the two adapters
\* ------------------------------------------------------------------------

DocsRsBase == [host |-> <<"docs.rs">>, dir |-> <<>>]
CratesIoBase == [host |-> <<"crates.io">>, dir |-> << <<"api">>, <<"v1">> >>]

RECURSIVE Split(_)
\* the segments of a path string, cut at every "/"
Split(s) ==
  IF \A i \in 1..Len(s) : s[i] # "/" THEN <<s>>
  ELSE LET k == CHOOSE i \in 1..Len(s) :
                  s[i] = "/" /\ \A j \in 1..(i - 1) : s[j] # "/"
       IN <<SubSeq(s, 1, k - 1)>> \o Split(SubSeq(s, k + 1, Len(s)))

RECURSIVE DropSlashes(_)
DropSlashes(s) ==
  IF s # <<>> /\ Head(s) = "/" THEN DropSlashes(Tail(s)) ELSE s

RECURSIVE RemoveDots(_, _)
\* the URL parser's handling of "." and ".." segments; ".." at the root stays
\* at the root, and a dot segment in last place leaves an empty last segment
RemoveDots(segs, acc) ==
  IF segs = <<>> THEN acc
  ELSE LET s == Head(segs)
           last == Len(segs) = 1
       IN IF s = <<"..">>
          THEN LET up == IF acc = <<>> THEN acc ELSE SubSeq(acc, 1, Len(acc) - 1)
               IN RemoveDots(Tail(segs), IF last THEN Append(up, <<>>) ELSE up)
          ELSE IF s = <<".">>
          THEN RemoveDots(Tail(segs), IF last THEN Append(acc, <<>>) ELSE acc)
          ELSE RemoveDots(Tail(segs), Append(acc, s))

\* new URL(path, base): an absolute URL or a "//host" reference replaces the
\* base's host, a path with a leading "/" replaces the base's path, any other
\* path is resolved against the directory of the base's path
ParseUrl(path, base) ==
  LET p == Trim(path)
      authority(rest) ==
        LET segs == Split(DropSlashes(rest))
        IN [host |-> Head(segs), path |-> RemoveDots(Tail(segs), <<>>)]
  IN IF p # <<>> /\ Head(p) = "https:" THEN authority(Tail(p))
     ELSE IF Len(p) >= 2 /\ p[1] = "/" /\ p[2] = "/" THEN authority(p)
     ELSE IF p # <<>> /\ Head(p) = "/"
     THEN [host |-> base.host, path |-> RemoveDots(Split(Tail(p)), <<>>)]
     ELSE [host |-> base.host, path |-> RemoveDots(base.dir \o Split(p), <<>>)]

\* buildUrl of either adapter: the parsed URL plus the defined query parameters
buildUrl(path, params, base) ==
  LET u == ParseUrl(path, base)
  IN [host |-> u.host, path |-> u.path, search |-> params]

\* ------------------------------------------------------------------------
\* HTML documents as cheerio sees them
\* ------------------------------------------------------------------------

\* An element: its tag, id, class, own text, and its descendant nodes
El(tag, id, cls, text, kids) ==
  [tag |-> tag, id |-> id, cls |-> cls, text |-> text, href |-> <<>>, kids |-> kids]

\* A descendant node: a leaf with a tag, a class, text and (for anchors) a href
Kid(tag, cls, text, href) ==
  [tag |-> tag, id |-> "", cls |-> cls, text |-> text, href |-> href, kids |-> <<>>]

\* <li class=cls><a href=href>text</a></li>
Li(cls, text, href) ==
  [tag |-> "li", id |-> "", cls |-> cls, text |-> <<>>, href |-> <<>>,
   kids |-> <<Kid("a", "", text, href)>>]

\* A bare text node
TextNode(text) == El("#text", "", "", text, <<>>)

RECURSIVE Nodes(_)
\* every element node of a document, in document order
Nodes(page) ==
  IF page = <<>> THEN <<>>
  ELSE (IF Head(page).tag = "#text" THEN <<>> ELSE <<Head(page)>>)
       \o Nodes(Head(page).kids) \o Nodes(Tail(page))

RECURSIVE TextOf(_)
\* .text() : the text of the nodes and of their descendants, concatenated
TextOf(nodes) ==
  IF nodes = <<>> THEN <<>>
  ELSE Head(nodes).text \o TextOf(Head(nodes).kids) \o TextOf(Tail(nodes))

\* $(".cls")
ByClass(page, cls) == SelectSeq(Nodes(page), LAMBDA n : n.cls = cls)

\* $("tag")
ByTag(page, tag) == SelectSeq(Nodes(page), LAMBDA n : n.tag = tag)

\* $("tag.cls")
ByTagClass(page, tag, cls) ==
  SelectSeq(Nodes(page), LAMBDA n : n.tag = tag /\ n.cls = cls)

\* $("#id")
ById(page, id) == SelectSeq(Nodes(page), LAMBDA n : n.id = id)

\* .html() of a selection: the inner markup of its first element, null when
\* the selection is empty; an element without content has the inner markup ""
HasInnerHtml(sel) ==
  sel # <<>> /\ (Head(sel).text # <<>> \/ Head(sel).kids # <<>>)

InnerHtml(sel) ==
  (IF Head(sel).text = <<>> THEN <<>> ELSE <<TextNode(Head(sel).text)>>)
  \o Head(sel).kids

RECURSIVE Blocks(_)
\* the non-blank text runs of a fragment, each trimmed
Blocks(frag) ==
  IF frag = <<>> THEN <<>>
  ELSE LET t == Trim(Head(frag).text)
       IN (IF t = <<>> THEN <<>> ELSE <<t>>)
          \o Blocks(Head(frag).kids) \o Blocks(Tail(frag))

\* turndownInstance.turndown(html): the markup is dropped, the text of every
\* block is kept, blocks are separated by a blank line; "" converts to ""
Turndown(frag) == Join(Blocks(frag), <<"\n\n">>)

\* ------------------------------------------------------------------------
\* The upstream: what a response can be
\* ------------------------------------------------------------------------

Statuses == {200, 404, 500}

JsonType == "application/json; charset=utf-8"
HtmlType == "text/html; charset=utf-8"
NoType == "<no content-type header>"

\* a number the JSON does not hold: reading it gives undefined
NoNumber == -1

NoObj == [fields |-> {}, crates |-> <<>>, total |-> 0, versions |-> <<>>, name |-> <<>>]

\* GET crates?q=... of the registry
SearchObj ==
  [fields |-> {"crates", "meta"},
   crates |-> << [name |-> <<"serde">>, max_version |-> <<"1.0.0">>] >>,
   total |-> 1, versions |-> <<>>, name |-> <<>>]

\* GET crates/{name} of the registry: two versions, the JSON of the second
\* without a "yanked" member (a JSON boolean is written as its literal)
CrateObj ==
  [fields |-> {"crate", "versions"},
   crates |-> <<>>, total |-> 0,
   versions |-> << [num |-> <<"1.0.0">>, yanked |-> <<"true">>],
                   [num |-> <<"0.9.0">>, yanked |-> Undefined] >>,
   name |-> <<"tokio">>]

\* a search page with two hits, one without max_version, and a total of one
SearchObjShort ==
  [fields |-> {"crates", "meta"},
   crates |-> << [name |-> <<"serde">>, max_version |-> <<"1.0.0">>],
                 [name |-> <<"serde_json">>, max_version |-> Undefined] >>,
   total |-> 1, versions |-> <<>>, name |-> <<>>]

\* the elements the pages of each documentation-site view are built from
MainContent == El("section", "main-content", "content", <<"Crate", " ", "docs">>, <<>>)
Para == El("p", "", "", <<"intro">>, <<>>)
PreRust == El("pre", "", "rust", <<"fn", " ", "main">>, <<>>)
Code == El("code", "", "", <<"let">>, <<>>)
\* the marker classes of an item page
MarkerClasses == {"struct", "enum", "trait", "fn", "macro", "type", "mod"}
Docblock ==
  El("div", "", "docblock", <<" ", "A", " ", "runtime">>,
     <<Kid("a", "src", <<"source">>, <<"/", "src", "/", "lib.rs">>)>>)
FeatureDefault == El("h3", "default", "", <<"default">>, <<>>)
FeatureHeading == El("h3", "", "", <<"Feature", " ", "flags">>, <<>>)
AllItems ==
  El("ul", "", "all-items", <<>>,
     <<Li("", <<"r", "t", "::", "R", "u", "n">>, <<"rt/struct.Run.html">>),
       Li("", <<"f", "s", "::", "F">>, <<"fs/struct.F.html">>)>>)

ElemsFor(o) ==
  CASE o = "getCrateDocumentation" ->
         {MainContent, El("section", "main-content", "content", <<>>, <<>>),
          Para, El("p", "", "", <<" ">>, <<>>)}
    [] o = "getSourceCode" -> {PreRust, Code, Para}
    [] o = "getTypeInfo" -> {El("pre", "", c, <<c>>, <<>>) : c \in MarkerClasses} \cup {Docblock}
    [] o = "getFeatureFlags" ->
         {FeatureDefault, FeatureHeading,
          El("h3", "full", "", <<"full", " ", "(default)">>, <<>>),
          El("h3", "rt", "", <<"rt">>, <<>>),
          El("p", "", "", <<"everything">>, <<>>),
          El("p", "", "is-default-feature", <<"on">>, <<>>),
          El("div", "", "", <<>>,
             <<Kid("span", "is-default-feature", <<"default">>, <<>>)>>)}
    [] o = "searchSymbols" ->
         {El("h3", "structs", "", <<"Structs">>, <<>>), AllItems, Para,
          El("ul", "", "all-items", <<>>,
             <<Li("", <<"r", "u", "n", "::">>, <<"run/index.html">>)>>)}
    [] OTHER -> {Para}

\* a response body: an HTML page, the text of a JSON object, or the text of a
\* JSON string literal whose content is an HTML page
HtmlBody(p) == [kind |-> "html", page |-> p, obj |-> NoObj]
JsonObjectBody(o) == [kind |-> "jsonObject", page |-> <<>>, obj |-> o]

\* the pages the upstream can answer each operation with
PagesOf ==
  [o \in {"searchCrates", "getCrateDetails", "getCrateDocumentation", "getTypeInfo",
          "getFeatureFlags", "getCrateVersions", "getSourceCode", "searchSymbols"} |->
     UNION {[1..n -> ElemsFor(o)] : n \in 0..MaxElems}]

\* the bodies the upstream can answer each operation with
BodiesOf ==
  [o \in DOMAIN PagesOf |->
     {HtmlBody(p) : p \in PagesOf[o]}
     \cup {JsonObjectBody(j) :
             j \in {SearchObj, SearchObjShort, [SearchObj EXCEPT !.total = NoNumber],
                    CrateObj, NoObj}}
     \cup {[kind |-> "jsonString", page |-> p, obj |-> NoObj] : p \in PagesOf[o]}]

\* ------------------------------------------------------------------------
\* The fetch adapters: docsRsFetch and cratesIoFetch
\* ------------------------------------------------------------------------

\* response.ok
IsOk(status) == status \in 200..299

\* contentType?.includes("application/json")
IsJson(ctype) == ctype = JsonType

\* an HTTP error that looks like a failed connection
HttpErrorAsTransport(status) == [name |-> "TypeError", message |-> <<"fetch failed">>]

\* throw new Error(`HTTP error! status: ${response.status}`)
HttpError(status) ==
  [name |-> "Error", message |-> <<"HTTP error! status: ", ToString(status)>>]


\* fetch() rejects when controller.abort() runs before the response arrived
AbortError == [name |-> "AbortError", message |-> <<"This operation was aborted">>]

\* response.json() on a body that is not JSON
JsonSyntaxError ==
  [name |-> "SyntaxError", message |-> <<"Unexpected token in JSON">>]


StringData(p) == [type |-> "string", page |-> p, obj |-> NoObj]

\* response.text(): the raw body, here as the document cheerio loads from it
AsText(body) ==
  CASE body.kind = "html" -> body.page
    [] body.kind = "jsonObject" -> <<TextNode(<<"{", "json", "}">>)>>
    [] body.kind = "jsonString" ->
         <<TextNode(<<"\"">>)>> \o body.page \o <<TextNode(<<"\"">>)>>

\* response.json() throws on a body that is not JSON
JsonFails(body) == body.kind = "html"

\* isJson ? await response.json() : await response.text()
ReadBody(ctype, body) ==
  IF IsJson(ctype)
  THEN IF body.kind = "jsonObject" THEN [type |-> "object", page |-> <<>>, obj |-> body.obj]
       ELSE StringData(body.page)
  ELSE StringData(AsText(body))

\* the value docsRsFetch / cratesIoFetch return
FetchResponse(status, ctype, body) ==
  [data |-> ReadBody(ctype, body), status |-> status,
   contentType |-> IF IsJson(ctype) THEN "json" ELSE "text"]

NoResponse == [data |-> StringData(<<>>), status |-> 0, contentType |-> "none"]

\* ------------------------------------------------------------------------
\* The scraping operations of service.ts
\* ------------------------------------------------------------------------

Ops == DOMAIN PagesOf

Ok(v) == [ok |-> TRUE, value |-> v, message |-> <<>>]
Throw(m) == [ok |-> FALSE, value |-> <<>>, message |-> m]

CrateNameRequired == <<"Crate name is required and cannot be empty">>
VersionRequired ==
  <<"Version is required for symbol search. Please specify a version (e.g., '1.0.0')">>

\* the checks an operation makes before its try block; <<>> when they pass
ValidationError(o, a) ==
  CASE o = "getCrateDocumentation" ->
         IF IsBlank(a.crateName) THEN CrateNameRequired ELSE <<>>
    [] o = "getSourceCode" ->
         IF IsBlank(a.crateName) THEN CrateNameRequired
         ELSE IF IsBlank(a.path)
         THEN <<"Path is required and cannot be empty. Use format like 'lib.rs' or 'src/main.rs'">>
         ELSE <<>>
    [] o = "searchSymbols" ->
         IF IsBlank(a.crateName) THEN CrateNameRequired
         ELSE IF IsBlank(a.query) THEN <<"Search query is required and cannot be empty">>
         ELSE IF IsBlank(a.version) THEN VersionRequired ELSE <<>>
    [] OTHER -> <<>>

\* const versionPath = version || "latest"
VersionPath(a) == OrDefault(a.version, <<"latest">>)

\* getTypeInfo: `${crateName}/${versionPath}/${crateName}/${path}`
TypeInfoPath(a) ==
  a.crateName \o <<"/">> \o VersionPath(a) \o <<"/">> \o a.crateName
  \o <<"/">> \o a.path

\* possibleUrls with its last two patterns in the other order
possibleUrlsSwapped(a) ==
  << <<"/">> \o a.crateName \o <<"/">> \o VersionPath(a) \o <<"/", "src", "/">>
       \o a.crateName \o <<"/">> \o a.path,
     <<"/">> \o a.crateName \o <<"/">> \o VersionPath(a) \o <<"/", "source", "/">>
       \o a.path,
     <<"/", "crate", "/">> \o a.crateName \o <<"/">> \o VersionPath(a)
       \o <<"/", "source", "/">> \o a.path >>

\* getSourceCode: possibleUrls
possibleUrls(a) ==
  << <<"/">> \o a.crateName \o <<"/">> \o VersionPath(a) \o <<"/", "src", "/">>
       \o a.crateName \o <<"/">> \o a.path,
     <<"/", "crate", "/">> \o a.crateName \o <<"/">> \o VersionPath(a)
       \o <<"/", "source", "/">> \o a.path,
     <<"/">> \o a.crateName \o <<"/">> \o VersionPath(a) \o <<"/", "source", "/">>
       \o a.path >>

\* the paths an operation hands to its adapter, in the order it tries them
Candidates(o, a) ==
  CASE o = "searchCrates" -> << <<"crates">> >>
    [] o \in {"getCrateDetails", "getCrateVersions"} ->
         << <<"crates", "/">> \o a.crateName >>
    [] o = "getCrateDocumentation" ->
         << a.crateName \o <<"/">> \o VersionPath(a) \o <<"/">> \o a.crateName
            \o <<"/">> >>
    [] o = "getTypeInfo" -> << TypeInfoPath(a) >>
    [] o = "getFeatureFlags" ->
         << <<"/", "crate", "/">> \o a.crateName \o <<"/">> \o VersionPath(a)
            \o <<"/", "features">> >>
    [] o = "getSourceCode" -> possibleUrls(a)
    [] o = "searchSymbols" ->
         << a.crateName \o <<"/">> \o a.version \o <<"/">> \o a.crateName
            \o <<"/", "all.html">> >>

\* the adapter an operation uses
ClientBase(o) ==
  IF o \in {"searchCrates", "getCrateDetails", "getCrateVersions"}
  THEN CratesIoBase ELSE DocsRsBase

\* the query parameters of the request: page || 1, perPage || 10
Params(o, a) ==
  IF o = "searchCrates"
  THEN [q |-> a.query,
        page |-> IF a.page = 0 THEN 1 ELSE a.page,
        per_page |-> IF a.perPage = 0 THEN 10 ELSE a.perPage]
  ELSE [q |-> <<>>, page |-> 0, per_page |-> 0]

ExpectedJson == <<"Expected JSON response but got text">>
ExpectedHtml == <<"Expected HTML response but got JSON">>

\* the check an operation makes on the adapter's response before it reads the
\* body; <<>> when it passes
ShapeError(o, resp) ==
  CASE o \in {"searchCrates", "getCrateDetails", "getCrateVersions"} ->
         IF resp.contentType # "json" THEN ExpectedJson ELSE <<>>
    [] o \in {"getCrateDocumentation", "getTypeInfo", "getFeatureFlags"} ->
         IF resp.contentType # "text" THEN ExpectedHtml ELSE <<>>
    [] o \in {"getSourceCode", "searchSymbols"} ->
         IF resp.data.type # "string" THEN ExpectedHtml ELSE <<>>

\* reading a property of undefined
UndefinedRead(prop) ==
  <<"Cannot read properties of undefined (reading '", prop, "')">>

\* the fields of the parsed JSON body; a JSON string has none of them
Fields(data) == IF data.type = "object" THEN data.obj.fields ELSE {}

\* searchCrates: data.crates.map(...), data.meta.total
ParseSearchCrates(data) ==
  IF "crates" \notin Fields(data) THEN Throw(UndefinedRead("map"))
  ELSE IF "meta" \notin Fields(data) THEN Throw(UndefinedRead("total"))
  ELSE Ok([crates |-> [i \in 1..Len(data.obj.crates) |->
                         [name |-> data.obj.crates[i].name,
                          version |-> data.obj.crates[i].max_version]],
           totalCount |-> data.obj.total])

\* data.versions.map(v => ({version: v.num, isYanked: v.yanked, ...}))
MapVersions(versions) ==
  [i \in 1..Len(versions) |->
     [version |-> versions[i].num, isYanked |-> versions[i].yanked]]

\* getCrateDetails: data.crate.name, ..., data.versions.map(...)
ParseCrateDetails(data) ==
  IF "crate" \notin Fields(data) THEN Throw(UndefinedRead("name"))
  ELSE IF "versions" \notin Fields(data) THEN Throw(UndefinedRead("map"))
  ELSE Ok([name |-> data.obj.name, versions |-> MapVersions(data.obj.versions)])

\* getCrateVersions: data.versions.map(...)
ParseCrateVersions(data) ==
  IF "versions" \notin Fields(data) THEN Throw(UndefinedRead("map"))
  ELSE Ok(MapVersions(data.obj.versions))

\* getCrateDocumentation without the full-page fallback
ParseDocumentationNoFallback(data) ==
  LET main == ById(data.page, "main-content")
  IN IF ~HasInnerHtml(main) THEN Throw(<<"Documentation content not found">>)
     ELSE Ok(Turndown(InnerHtml(main)))

\* getCrateDocumentation: the main content, or the whole page, as markdown
ParseDocumentation(data) ==
  LET main == ById(data.page, "main-content")
  IN IF ~HasInnerHtml(main) THEN Ok(Turndown(data.page))
     ELSE Ok(Turndown(InnerHtml(main)))

\* KindOf testing the enum marker before the struct marker
KindOfEnumFirst(page) ==
  IF ByClass(page, "enum") # <<>> THEN "enum"
  ELSE IF ByClass(page, "struct") # <<>> THEN "struct"
  ELSE IF ByClass(page, "trait") # <<>> THEN "trait"
  ELSE IF ByClass(page, "fn") # <<>> THEN "function"
  ELSE IF ByClass(page, "macro") # <<>> THEN "macro"
  ELSE IF ByClass(page, "type") # <<>> THEN "type"
  ELSE IF ByClass(page, "mod") # <<>> THEN "module"
  ELSE "other"

\* getTypeInfo: the kind of the item, by the first marker class present
KindOf(page) ==
  IF ByClass(page, "struct") # <<>> THEN "struct"
  ELSE IF ByClass(page, "enum") # <<>> THEN "enum"
  ELSE IF ByClass(page, "trait") # <<>> THEN "trait"
  ELSE IF ByClass(page, "fn") # <<>> THEN "function"
  ELSE IF ByClass(page, "macro") # <<>> THEN "macro"
  ELSE IF ByClass(page, "type") # <<>> THEN "type"
  ELSE IF ByClass(page, "mod") # <<>> THEN "module"
  ELSE "other"

\* x || undefined
OrUndefined(s) == IF s = <<>> THEN Undefined ELSE s

\* path.split("/").pop() || path
LastSegment(path) ==
  LET segs == Split(path)
  IN IF segs[Len(segs)] = <<>> THEN path ELSE segs[Len(segs)]

\* getTypeInfo giving the documentation URL only when a description was found
ParseTypeInfoUrlIfDescribed(a, data) ==
  LET page == data.page
      docblocks == ByClass(page, "docblock")
  IN Ok([name |-> LastSegment(a.path),
         kind |-> KindOf(page),
         path |-> a.path,
         description |->
           OrUndefined(IF docblocks = <<>> THEN <<>>
                       ELSE Trim(TextOf(<<Head(docblocks)>>))),
         sourceUrl |-> Undefined,
         documentationUrl |->
           IF docblocks = <<>> THEN Undefined
           ELSE <<"https:", "/", "/", "docs.rs">> \o TypeInfoPath(a)])

\* getTypeInfo
ParseTypeInfo(a, data) ==
  LET page == data.page
      docblocks == ByClass(page, "docblock")
      src == ByClass(page, "src")
  IN Ok([name |-> LastSegment(a.path),
         kind |-> KindOf(page),
         path |-> a.path,
         description |->
           OrUndefined(IF docblocks = <<>> THEN <<>>
                       ELSE Trim(TextOf(<<Head(docblocks)>>))),
         sourceUrl |-> OrUndefined(IF src = <<>> THEN <<>> ELSE Head(src).href),
         documentationUrl |-> <<"https:", "/", "/", "docs.rs">> \o TypeInfoPath(a)])

\* $element.next(): the sibling that follows the i-th top-level element
NextSibling(page, i) == IF i < Len(page) THEN <<page[i + 1]>> ELSE <<>>

\* FeatureOf without the checks of the id
FeatureOfUnfiltered(page, i) ==
  LET el == page[i]
      next == NextSibling(page, i)
  IN IF el.tag # "h3" THEN <<>>
     ELSE << [name |-> el.id,
              description |->
                OrUndefined(Trim(TextOf(SelectSeq(next, LAMBDA n : n.tag = "p")))),
              enabled |-> Includes(TextOf(<<el>>), <<"(default)">>)] >>

\* getFeatureFlags: the record of the i-th top-level element, <<>> when the
\* element is no h3, has no id, or is the "default" section
FeatureOf(page, i) ==
  LET el == page[i]
      next == NextSibling(page, i)
  IN IF el.tag # "h3" \/ el.id = "" \/ el.id = "default" THEN <<>>
     ELSE << [name |-> el.id,
              description |->
                OrUndefined(Trim(TextOf(SelectSeq(next, LAMBDA n : n.tag = "p")))),
              enabled |->
                \/ Includes(TextOf(<<el>>), <<"(default)">>)
                \/ \E k \in 1..Len(next) :
                     ByClass(next[k].kids, "is-default-feature") # <<>>] >>

RECURSIVE FeaturesFrom(_, _)
FeaturesFrom(page, i) ==
  IF i > Len(page) THEN <<>>
  ELSE FeatureOf(page, i) \o FeaturesFrom(page, i + 1)

ParseFeatureFlags(data) == Ok(FeaturesFrom(data.page, 1))

\* toLowerCase left out
KeepCase(s) == s

\* String.prototype.toLowerCase, over the letters the pages use
LowerChar(c) ==
  CASE c = "R" -> "r" [] c = "F" -> "f" [] c = "S" -> "s" [] OTHER -> c

ToLowerCase(s) == [i \in 1..Len(s) |-> LowerChar(s[i])]

RECURSIVE SplitOn(_, _)
\* s.split(sep) for a one-token separator
SplitOn(s, sep) ==
  IF \A i \in 1..Len(s) : s[i] # sep THEN <<s>>
  ELSE LET k == CHOOSE i \in 1..Len(s) :
                  s[i] = sep /\ \A j \in 1..(i - 1) : s[j] # sep
       IN <<SubSeq(s, 1, k - 1)>> \o SplitOn(SubSeq(s, k + 1, Len(s)), sep)

\* fullName.split("::").pop()
SymbolNameNoFallback(fullName) ==
  LET parts == SplitOn(fullName, "::")
  IN parts[Len(parts)]

\* fullName.split("::").pop() || fullName
SymbolName(fullName) ==
  LET parts == SplitOn(fullName, "::")
  IN IF parts[Len(parts)] = <<>> THEN fullName ELSE parts[Len(parts)]

\* searchSymbols: the symbol kind of a section, by the id of its heading
SectionKind(id) ==
  CASE id = "structs" -> "struct" [] id = "enums" -> "enum"
    [] id = "traits" -> "trait" [] id = "functions" -> "function"
    [] id = "macros" -> "macro" [] id = "derives" -> "derive"
    [] id = "modules" -> "module" [] OTHER -> "other"

RECURSIVE SymbolsOfLinks(_, _, _)
\* the links of one section that match the query
SymbolsOfLinks(links, kind, a) ==
  IF links = <<>> THEN <<>>
  ELSE LET fullName == Trim(Head(links).text)
           symbolName == SymbolName(fullName)
           q == ToLowerCase(a.query)
           hit == \/ Includes(ToLowerCase(symbolName), q)
                  \/ Includes(ToLowerCase(fullName), q)
       IN (IF hit
           THEN << [name |-> symbolName, kind |-> kind, path |-> fullName,
                    documentationUrl |->
                      <<"https://docs.rs/">> \o a.crateName \o <<"/">> \o a.version
                      \o <<"/">> \o a.crateName \o <<"/">> \o Head(links).href] >>
           ELSE <<>>)
          \o SymbolsOfLinks(Tail(links), kind, a)

\* .find("li a") : the anchors inside the list items of a list
ItemLinks(list) ==
  LET items == ByTag(list.kids, "li")
  IN Flatten([k \in 1..Len(items) |-> ByTag(items[k].kids, "a")])

\* the symbols of the section whose heading is the i-th top-level element
SectionSymbols(page, i, a) ==
  LET el == page[i]
      next == NextSibling(page, i)
  IN IF el.tag # "h3" \/ el.id = "" THEN <<>>
     ELSE IF next = <<>> \/ next[1].tag # "ul" \/ next[1].cls # "all-items" THEN <<>>
     ELSE SymbolsOfLinks(ItemLinks(next[1]), SectionKind(el.id), a)

RECURSIVE SymbolsFrom(_, _, _)
SymbolsFrom(page, i, a) ==
  IF i > Len(page) THEN <<>>
  ELSE SectionSymbols(page, i, a) \o SymbolsFrom(page, i + 1, a)

ParseSymbols(a, data) == Ok(SymbolsFrom(data.page, 1, a))

\* getSourceCode: the pre.rust text, else the code text
ParseSourceCode(data) ==
  LET sourceCode == TextOf(ByTagClass(data.page, "pre", "rust"))
      codeElement == TextOf(ByTag(data.page, "code"))
  IN IF sourceCode = <<>> /\ codeElement # <<>> THEN Ok(codeElement)
     ELSE Ok(sourceCode)

\* what an operation makes of a response that passed its shape check
Parse(o, a, resp) ==
  CASE o = "searchCrates" -> ParseSearchCrates(resp.data)
    [] o = "getCrateDetails" -> ParseCrateDetails(resp.data)
    [] o = "getCrateVersions" -> ParseCrateVersions(resp.data)
    [] o = "getCrateDocumentation" -> ParseDocumentation(resp.data)
    [] o = "getTypeInfo" -> ParseTypeInfo(a, resp.data)
    [] o = "getFeatureFlags" -> ParseFeatureFlags(resp.data)
    [] o = "getSourceCode" -> ParseSourceCode(resp.data)
    [] o = "searchSymbols" -> ParseSymbols(a, resp.data)

\* the prefix of the error an operation's catch block throws
ErrorPrefix(o, a) ==
  CASE o = "searchCrates" -> <<"failed to search for crates: ">>
    [] o = "getCrateDetails" ->
         <<"failed to get crate details for ">> \o a.crateName \o <<": ">>
    [] o = "getCrateDocumentation" ->
         <<"failed to get documentation for crate ">> \o a.crateName \o <<": ">>
    [] o = "getTypeInfo" -> <<"Failed to get type info: ">>
    [] o = "getFeatureFlags" -> <<"Failed to get feature flags: ">>
    [] o = "getCrateVersions" -> <<"failed to get crate versions: ">>
    [] o = "getSourceCode" -> <<"Failed to get source code: ">>
    [] o = "searchSymbols" -> <<"Failed to search for symbols: ">>

\* a catch block that drops the cause
WrappedWithoutCause(o, a, message) == ErrorPrefix(o, a) \o <<"unknown error">>

\* catch (error) { throw new Error(`<prefix>${error.message}`) }
Wrapped(o, a, message) == ErrorPrefix(o, a) \o message

\* CouldNotFind naming the first pattern only
CouldNotFindFirstOnly(a) ==
  <<"Could not find source code at any of the attempted URLs: ">>
  \o possibleUrls(a)[1]

\* getSourceCode: the error thrown when no candidate gave a response
CouldNotFind(a) ==
  <<"Could not find source code at any of the attempted URLs: ">>
  \o Join(possibleUrls(a), <<", ">>)

\* getSourceCode's loop catches the failure of a candidate and goes on
TriesNext(o, a, idx) == o = "getSourceCode" /\ idx < Len(Candidates(o, a))

\* the message of the error thrown inside the try block when the adapter threw
\* and no candidate is left
FailureMessage(o, a, e) ==
  IF o = "getSourceCode" THEN CouldNotFind(a) ELSE e.message

\* ------------------------------------------------------------------------
\* The tool shell (index.ts): one handler per tool
\* ------------------------------------------------------------------------

\* the tool that exposes an operation; getCrateDetails has none
ToolOf(o) ==
  CASE o = "searchCrates" -> "search_crates"
    [] o = "getCrateDocumentation" -> "get_crate_documentation"
    [] o = "getTypeInfo" -> "get_type_info"
    [] o = "getFeatureFlags" -> "get_feature_flags"
    [] o = "getCrateVersions" -> "get_crate_versions"
    [] o = "getSourceCode" -> "get_source_code"
    [] o = "searchSymbols" -> "search_symbols"
    [] OTHER -> "none"

\* the prefix of the text of a handler's error payload
ToolErrorPrefix(o) ==
  CASE o = "searchCrates" -> <<"Error searching for crates: ">>
    [] o = "getCrateDocumentation" -> <<"Error getting documentation: ">>
    [] o = "getTypeInfo" -> <<"Error getting type information: ">>
    [] o = "getFeatureFlags" -> <<"Error getting feature flags: ">>
    [] o = "getCrateVersions" -> <<"Error getting crate versions: ">>
    [] o = "getSourceCode" -> <<"Error getting source code: ">>
    [] o = "searchSymbols" -> <<"Error searching for symbols: ">>

\* let content = "Documentation content not found", as the markup it is
ContentNotFound == <<TextNode(<<"Documentation content not found">>)>>

\* get_crate_documentation: $(selector) for each selector of its list, in
\* the order of the list
Selections(crateName, doc) ==
  << SelectSeq(Nodes(doc), LAMBDA n : <<n.id>> = crateName),
     ById(doc, "main-content"), ByTag(doc, "main"), ByClass(doc, "docblock"),
     ByClass(doc, "rustdoc"), ByClass(doc, "content") >>

\* the loop over the selectors: the first selection with an element ends it,
\* and its inner markup, when not "", replaces the "not found" text
SelectContent(crateName, doc) ==
  LET selections == Selections(crateName, doc)
      found == {k \in 1..Len(selections) : selections[k] # <<>>}
  IN IF found = {} THEN ContentNotFound
     ELSE LET k == CHOOSE m \in found : \A j \in found : m <= j
          IN IF HasInnerHtml(selections[k]) THEN InnerHtml(selections[k])
             ELSE ContentNotFound

\* get_crate_documentation: the text it returns to the client, selected from
\* the document cheerio loads from the operation's result: markdown text
\* loads as one text node
DocumentationContent(a, html) ==
  SelectContent(a.crateName, IF html = <<>> THEN <<>> ELSE <<TextNode(html)>>)

\* JSON.stringify(result, null, 2): the text of the value
Stringify(v) == <<"JSON", v>>

NoEnvelope == [tool |-> "none", isError |-> FALSE, text |-> <<>>]

\* a handler without its catch block: the error leaves the handler
ToolEnvelopeUncaught(o, a, result) ==
  IF ToolOf(o) = "none" \/ result.kind = "error" THEN NoEnvelope
  ELSE [tool |-> ToolOf(o), isError |-> FALSE, text |-> Stringify(result.value)]

\* what the handler of the operation's tool returns: the result as text, or,
\* from its catch block, the error payload
ToolEnvelope(o, a, result) ==
  IF ToolOf(o) = "none" THEN NoEnvelope
  ELSE IF result.kind = "error"
  THEN [tool |-> ToolOf(o), isError |-> TRUE,
        text |-> ToolErrorPrefix(o) \o result.message]
  ELSE [tool |-> ToolOf(o), isError |-> FALSE,
        text |-> IF o = "getCrateDocumentation"
                 THEN DocumentationContent(a, result.value)
                 ELSE IF o = "getSourceCode" THEN result.value
                 ELSE Stringify(result.value)]

\* ------------------------------------------------------------------------
\* State
\* ------------------------------------------------------------------------

VARIABLES
  op,        \* the operation being executed, "none" when idle
  args,      \* its arguments
  pc,        \* "idle", "awaitHeaders" (in fetch), "awaitBody", "done"
  urlIdx,    \* the candidate path of the current adapter call
  calls,     \* the paths handed to the adapter in this invocation
  requests,  \* the URLs handed to fetch() in this invocation
  timers,    \* the abort timers armed and neither cleared nor fired
  head,      \* status line and content-type of the response being read
  response,  \* the adapter's return value the operation works on
  thrown,    \* the errors the adapter's catch block logged and re-threw, each
             \* with what the upstream did to cause it
  outcome,   \* how the invocation ended
  envelope   \* what the tool handler of the operation returned to the client

vars ==
  <<op, args, pc, urlIdx, calls, requests, timers, head, response, thrown, outcome,
    envelope>>

CrateNames == {<<>>, <<" ">>, <<"tokio">>, <<"/", "/", "evil.example">>}
Queries == {<<>>, <<"r", "u", "n">>}
Versions == {Undefined, <<"latest">>, <<"1.0.0">>}

NoArgs ==
  [crateName |-> <<>>, path |-> <<>>, query |-> <<>>, version |-> Undefined,
   page |-> 0, perPage |-> 0]

\* the argument records an operation can be called with
ArgsFor(o) ==
  CASE o = "searchCrates" ->
         {[NoArgs EXCEPT !.query = q, !.perPage = n] : q \in Queries, n \in {0, 1}}
    [] o \in {"getCrateDetails", "getCrateVersions"} ->
         {[NoArgs EXCEPT !.crateName = c] : c \in CrateNames}
    [] o \in {"getCrateDocumentation", "getFeatureFlags"} ->
         {[NoArgs EXCEPT !.crateName = c, !.version = v] :
            c \in CrateNames, v \in Versions}
    [] o \in {"getTypeInfo", "getSourceCode"} ->
         {[NoArgs EXCEPT !.crateName = c, !.path = p, !.version = v] :
            c \in CrateNames, v \in Versions,
            p \in {<<>>, <<"lib.rs">>,
                   <<"..", "/", "..", "/", "..", "/", "..", "/", "lib.rs">>}}
    [] o = "searchSymbols" ->
         {[NoArgs EXCEPT !.crateName = c, !.query = q, !.version = v] :
            c \in CrateNames, q \in Queries, v \in Versions}

\* the URL each adapter call of each invocation fetches: buildUrl(path, params)
RequestUrls ==
  [o \in Ops |->
     [a \in ArgsFor(o) |->
        [i \in 1..Len(Candidates(o, a)) |->
           buildUrl(Candidates(o, a)[i], Params(o, a), ClientBase(o))]]]

NoHead == [status |-> 0, ctype |-> NoType]
NoOutcome == [kind |-> "none", message |-> <<>>, value |-> <<>>]
Returned(v) == [kind |-> "ok", message |-> <<>>, value |-> v]
Threw(m) == [kind |-> "error", message |-> m, value |-> <<>>]

Init ==
  /\ op = "none"
  /\ args = NoArgs
  /\ pc = "idle"
  /\ urlIdx = 0
  /\ calls = <<>>
  /\ requests = <<>>
  /\ timers = 0
  /\ head = NoHead
  /\ response = NoResponse
  /\ thrown = <<>>
  /\ outcome = NoOutcome
  /\ envelope = NoEnvelope

\* ------------------------------------------------------------------------
\* Steps
\* ------------------------------------------------------------------------

\* docsRsFetch / cratesIoFetch up to `await fetch(...)`: the URL is built, the
\* abort timer armed and one fetch issued; `pending` is the number of timers
\* pending before the call
StartCall(o, a, idx, pending) ==
  /\ urlIdx' = idx
  /\ calls' = Append(calls, Candidates(o, a)[idx])
  /\ requests' = Append(requests, RequestUrls[o][a][idx])
  /\ timers' = pending + 1
  /\ head' = NoHead
  /\ pc' = "awaitHeaders"
  /\ envelope' = envelope

\* the invocation ends
Finish(result) ==
  /\ pc' = "done"
  /\ outcome' = result
  /\ envelope' = ToolEnvelope(op, args, result)
  /\ UNCHANGED <<urlIdx, calls, requests, head>>

\* an entry of the adapter's error log
Logged(cause, status, e) == [cause |-> cause, status |-> status, error |-> e]

\* the adapter logs and re-throws e; the operation tries its next candidate or
\* throws the wrapped error; `pending` is the number of timers still pending
AdapterThrows(cause, status, e, pending) ==
  /\ thrown' = Append(thrown, Logged(cause, status, e))
  /\ response' = response
  /\ IF TriesNext(op, args, urlIdx)
     THEN /\ StartCall(op, args, urlIdx + 1, pending)
          /\ outcome' = outcome
     ELSE /\ Finish(Threw(Wrapped(op, args, FailureMessage(op, args, e))))
          /\ timers' = pending

\* a caller invokes an operation
Invoke(o, a) ==
  /\ pc = "idle"
  /\ op' = o
  /\ args' = a
  /\ UNCHANGED <<response, thrown>>
  /\ IF ValidationError(o, a) # <<>>
     THEN /\ pc' = "done"
          /\ outcome' = Threw(ValidationError(o, a))
          /\ envelope' = ToolEnvelope(o, a, Threw(ValidationError(o, a)))
          /\ UNCHANGED <<urlIdx, calls, requests, head, timers>>
     ELSE /\ StartCall(o, a, 1, timers)
          /\ outcome' = outcome

\* the status line and headers arrive: the timer is cleared, a non-2xx status
\* is thrown, otherwise the body is awaited
HeadersArrive(status, ctype) ==
  /\ pc = "awaitHeaders"
  /\ UNCHANGED <<op, args>>
  /\ IF ~IsOk(status)
     THEN AdapterThrows("status", status, HttpError(status), timers - 1)
     ELSE /\ pc' = "awaitBody"
          /\ head' = [status |-> status, ctype |-> ctype]
          /\ timers' = timers - 1
          /\ UNCHANGED <<urlIdx, calls, requests, response, thrown, outcome, envelope>>

\* the connection fails before any response: fetch rejects
FetchRejects ==
  /\ pc = "awaitHeaders"
  /\ timers <= MaxStale
  /\ UNCHANGED <<op, args>>
  /\ AdapterThrows("transport", 0,
                   [name |-> "TypeError", message |-> <<"fetch failed">>], timers)

\* the abort timer of the call in flight fires: controller.abort()
TimerFires ==
  /\ pc = "awaitHeaders"
  /\ UNCHANGED <<op, args>>
  /\ AdapterThrows("abort", 0, AbortError, timers - 1)

\* the abort timer of a call that settled earlier fires: nothing to abort
StaleTimerFires ==
  /\ timers > (IF pc = "awaitHeaders" THEN 1 ELSE 0)
  /\ timers' = timers - 1
  /\ UNCHANGED <<op, args, pc, urlIdx, calls, requests, head, response, thrown, outcome,
                 envelope>>

\* the operation's code after `await client.get(...)` returned resp: how the
\* invocation ends
OutcomeOf(o, a, resp) ==
  LET shape == ShapeError(o, resp)
      parsed == Parse(o, a, resp)
  IN IF shape # <<>> THEN Threw(Wrapped(o, a, shape))
     ELSE IF parsed.ok THEN Returned(parsed.value)
     ELSE Threw(Wrapped(o, a, parsed.message))

\* the body arrives and is read as JSON or as text
BodyArrives(body) ==
  /\ pc = "awaitBody"
  /\ UNCHANGED <<op, args>>
  /\ IF IsJson(head.ctype) /\ JsonFails(body)
     THEN AdapterThrows("json", head.status, JsonSyntaxError, timers)
     ELSE /\ response' = FetchResponse(head.status, head.ctype, body)
          /\ Finish(OutcomeOf(op, args, FetchResponse(head.status, head.ctype, body)))
          /\ UNCHANGED <<timers, thrown>>

\* the upstream completes the body with one of the bodies it can send
ReceiveBody == pc = "awaitBody" /\ \E b \in BodiesOf[op] : BodyArrives(b)

\* the connection drops while the body is read
BodyFails ==
  /\ pc = "awaitBody"
  /\ UNCHANGED <<op, args>>
  /\ AdapterThrows("body", head.status,
                   [name |-> "TypeError", message |-> <<"terminated">>], timers)

\* the caller takes the result
Return ==
  /\ pc = "done"
  /\ op' = "none"
  /\ args' = NoArgs
  /\ pc' = "idle"
  /\ urlIdx' = 0
  /\ calls' = <<>>
  /\ requests' = <<>>
  /\ head' = NoHead
  /\ response' = NoResponse
  /\ thrown' = <<>>
  /\ outcome' = NoOutcome
  /\ envelope' = NoEnvelope
  /\ timers' = timers

Next ==
  \/ \E o \in Ops : \E a \in ArgsFor(o) : Invoke(o, a)
  \/ \E s \in Statuses : \E c \in {JsonType, HtmlType, NoType} : HeadersArrive(s, c)
  \/ FetchRejects
  \/ TimerFires
  \/ StaleTimerFires
  \/ ReceiveBody
  \/ BodyFails
  \/ Return

Spec == Init /\ [][Next]_vars

\* the event loop runs every timer that is due and every continuation that is
\* ready; the upstream owes nothing
FairSpec ==
  Spec /\ WF_vars(TimerFires) /\ WF_vars(StaleTimerFires) /\ WF_vars(Return)

\* ------------------------------------------------------------------------
\* The DocsRsService class (services/docs-rs-service.ts) over the axios client
\* ------------------------------------------------------------------------

\* $(".versions li")
VersionItems(page) ==
  LET lists == ByClass(page, "versions")
  IN Flatten([i \in 1..Len(lists) |-> ByTag(lists[i].kids, "li")])

RECURSIVE PrimaryVersions(_)
\* the entries of the version list: the anchor text of every item that has one
PrimaryVersions(items) ==
  IF items = <<>> THEN <<>>
  ELSE LET version == Trim(TextOf(ByTag(Head(items).kids, "a")))
       IN (IF version # <<>>
           THEN << [version |-> version, isYanked |-> Head(items).cls = "yanked"] >>
           ELSE <<>>)
          \o PrimaryVersions(Tail(items))

\* the result of a match that failed
NoMatch == <<"<null>">>

RECURSIVE UpToSlash(_)
\* [^/]+ : the longest run without "/" at the start of s
UpToSlash(s) ==
  IF s = <<>> \/ Head(s) = "/" THEN <<>> ELSE <<Head(s)>> \o UpToSlash(Tail(s))

\* href.match(new RegExp(`/crate/${crateName}/([^/]+)`)), its group 1
VersionMatch(href, crateName) ==
  LET prefix == <<"/", "crate", "/">> \o crateName \o <<"/">>
      n == Len(prefix)
      at(i) == SubSeq(href, i, i + n - 1) = prefix /\ href[i + n] # "/"
      hits == {i \in 1..(Len(href) - n) : at(i)}
  IN IF hits = {} THEN NoMatch
     ELSE LET i == CHOOSE k \in hits : \A j \in hits : k <= j
          IN UpToSlash(SubSeq(href, i + n, Len(href)))

\* ScanAnchors pushing every match
RECURSIVE ScanAnchorsNoDedup(_, _, _)
ScanAnchorsNoDedup(anchors, crateName, versions) ==
  IF anchors = <<>> THEN versions
  ELSE LET version == VersionMatch(Head(anchors).href, crateName)
       IN ScanAnchorsNoDedup(Tail(anchors), crateName,
            IF version # NoMatch /\ version # <<"latest">>
            THEN Append(versions, [version |-> version, isYanked |-> FALSE])
            ELSE versions)

RECURSIVE ScanAnchors(_, _, _)
\* the anchor scan: every anchor that links to a version of the crate adds
\* the version, unless it is "latest" or already there
ScanAnchors(anchors, crateName, versions) ==
  IF anchors = <<>> THEN versions
  ELSE LET version == VersionMatch(Head(anchors).href, crateName)
       IN ScanAnchors(Tail(anchors), crateName,
            IF /\ version # NoMatch
               /\ version # <<"latest">>
               /\ \A k \in 1..Len(versions) : versions[k].version # version
            THEN Append(versions, [version |-> version, isYanked |-> FALSE])
            ELSE versions)

\* $('a[href*="/crate/' + crateName + '/"]')
CrateAnchors(page, crateName) ==
  SelectSeq(ByTag(page, "a"),
            LAMBDA n : Includes(n.href, <<"/", "crate", "/">> \o crateName \o <<"/">>))


\* DocsRsService.getCrateVersions: the version list, else the anchor scan,
\* else (for tokio) the mock versions
LegacyCrateVersions(crateName, page) ==
  LET primary == PrimaryVersions(VersionItems(page))
      versions == IF primary = <<>>
                  THEN ScanAnchors(CrateAnchors(page, crateName), crateName, <<>>)
                  ELSE primary
  IN IF versions = <<>> /\ crateName = <<"tokio">>
     THEN << [version |-> <<"1.36.0">>, isYanked |-> FALSE],
             [version |-> <<"1.35.1">>, isYanked |-> FALSE],
             [version |-> <<"1.35.0">>, isYanked |-> FALSE] >>
     ELSE versions

\* the crate page of the documentation site, as the upstream can send it
LegacyVersionElems ==
  {El("ul", "", "versions", <<>>,
      <<Li("", <<"1.0.0">>, <<"/", "crate", "/", "tokio", "/", "1.0.0">>),
        Li("yanked", <<"0.9.0">>, <<"/", "crate", "/", "tokio", "/", "0.9.0">>)>>),
   El("ul", "", "versions", <<>>,
      <<Li("", <<" ">>, <<"/", "crate", "/", "tokio", "/", "1.0.0">>)>>),
   Kid("a", "", <<"1.0.0">>, <<"/", "crate", "/", "tokio", "/", "1.0.0">>),
   Kid("a", "", <<"features">>,
       <<"/", "crate", "/", "tokio", "/", "1.0.0", "/", "features">>),
   Kid("a", "", <<"latest">>, <<"/", "crate", "/", "tokio", "/", "latest">>),
   Kid("a", "", <<"serde">>, <<"/", "crate", "/", "serde", "/", "2.0.0">>),
   Para}



\* axios rejects a response whose status is not 2xx
AxiosStatusError(status) ==
  [name |-> "AxiosError",
   message |-> <<"Request failed with status code ", ToString(status)>>]


\* DocsRsService.getCrateVersions is called: one GET of /crate/{crateName}
LegacyInvoke(crateName) ==
  /\ pc = "idle"
  /\ op' = "DocsRsService.getCrateVersions"
  /\ args' = [NoArgs EXCEPT !.crateName = crateName]
  /\ calls' = << <<"/", "crate", "/">> \o crateName >>
  /\ pc' = "awaitHeaders"
  /\ UNCHANGED <<urlIdx, requests, timers, head, response, thrown, outcome, envelope>>

\* the response arrives: a non-2xx status is rejected by axios and wrapped by
\* the catch block, a page is scanned for versions
LegacyResponds(status, page) ==
  /\ pc = "awaitHeaders"
  /\ op = "DocsRsService.getCrateVersions"
  /\ pc' = "done"
  /\ head' = [status |-> status, ctype |-> HtmlType]
  /\ UNCHANGED <<op, args, urlIdx, calls, requests, timers, envelope>>
  /\ IF IsOk(status)
     THEN /\ response' = [data |-> StringData(page), status |-> status,
                          contentType |-> "text"]
          /\ outcome' = Returned(LegacyCrateVersions(args.crateName, page))
          /\ thrown' = thrown
     ELSE /\ response' = response
          /\ thrown' = Append(thrown, Logged("status", status, AxiosStatusError(status)))
          /\ outcome' = Threw(<<"Failed to get crate versions: ">>
                              \o AxiosStatusError(status).message)

\* no response arrives
LegacyNoResponse(e) ==
  /\ pc = "awaitHeaders"
  /\ op = "DocsRsService.getCrateVersions"
  /\ pc' = "done"
  /\ thrown' = Append(thrown, Logged("transport", 0, e))
  /\ outcome' = Threw(<<"Failed to get crate versions: ">> \o e.message)
  /\ UNCHANGED <<op, args, urlIdx, calls, requests, timers, head, response, envelope>>

LegacyNext ==
  \/ \E c \in {<<>>, <<"tokio">>, <<"serde">>} : LegacyInvoke(c)
  \/ \E s \in Statuses :
       \E p \in UNION {[1..n -> LegacyVersionElems] : n \in 0..MaxElems} :
         LegacyResponds(s, p)
  \/ \E e \in {[name |-> "AxiosError", message |-> <<"Network Error">>],
              [name |-> "AxiosError", message |-> <<"timeout of 10000ms exceeded">>]} :
       LegacyNoResponse(e)
  \/ Return

LegacySpec == Init /\ [][LegacyNext]_vars

\* ------------------------------------------------------------------------
\* The content selection of get_crate_documentation on any document
\* ------------------------------------------------------------------------

\* the handler's code after `await getCrateDocumentation(...)` returned a
\* string, written as the document doc cheerio loads from it
ExtractInvoke(crateName, doc) ==
  /\ pc = "idle"
  /\ op' = "getCrateDocumentation"
  /\ args' = [NoArgs EXCEPT !.crateName = crateName]
  /\ outcome' = Returned(doc)
  /\ envelope' = [tool |-> "get_crate_documentation", isError |-> FALSE,
                  text |-> SelectContent(crateName, doc)]
  /\ pc' = "done"
  /\ UNCHANGED <<urlIdx, calls, requests, timers, head, response, thrown>>

ExtractNext ==
  \/ \E c \in {<<"tokio">>, <<"serde">>} :
       \E doc \in UNION {[1..n ->
                            {MainContent, Docblock, Para,
                             El("section", "main-content", "content", <<>>, <<>>),
                             El("main", "", "", <<"body">>, <<>>),
                             El("div", "tokio", "", <<"top">>, <<>>),
                             El("div", "", "rustdoc", <<>>, <<>>)}] : n \in 0..MaxElems} :
         ExtractInvoke(c, doc)
  \/ Return

ExtractSpec == Init /\ [][ExtractNext]_vars

\* ------------------------------------------------------------------------
\* Invocations in flight together: every variable holds one value per slot
\* ------------------------------------------------------------------------

Slots == 1..2

\* one cell for the locals of every invocation
SharedFrame(i) == 1

\* the activation that holds the locals of the invocation in slot i: its own
Frame(i) == i

NoBody == [kind |-> "none", page |-> <<>>, obj |-> NoObj]

ConcInit ==
  /\ op = [i \in Slots |-> "none"]
  /\ args = [i \in Slots |-> NoArgs]
  /\ pc = [i \in Slots |-> "idle"]
  /\ urlIdx = [i \in Slots |-> 0]
  /\ calls = [i \in Slots |-> <<>>]
  /\ requests = [i \in Slots |-> <<>>]
  /\ timers = [i \in Slots |-> 0]
  /\ head = [i \in Slots |-> [status |-> 0, ctype |-> NoType, body |-> NoBody]]
  /\ response = [i \in Slots |-> NoResponse]
  /\ thrown = [i \in Slots |-> <<>>]
  /\ outcome = [i \in Slots |-> NoOutcome]
  /\ envelope = [i \in Slots |-> NoEnvelope]

\* the adapter call for candidate idx of the invocation in slot i begins: its
\* own controller and timer
ConcStart(i, o, a, idx) ==
  /\ urlIdx' = [urlIdx EXCEPT ![i] = idx]
  /\ calls' = [calls EXCEPT ![i] = Append(@, Candidates(o, a)[idx])]
  /\ requests' = [requests EXCEPT ![i] = Append(@, RequestUrls[o][a][idx])]
  /\ timers' = [timers EXCEPT ![i] = 1]
  /\ head' = [head EXCEPT ![i] = [status |-> 0, ctype |-> NoType, body |-> NoBody]]
  /\ pc' = [pc EXCEPT ![i] = "awaitHeaders"]
  /\ UNCHANGED <<outcome, envelope>>

\* the invocation in slot i ends
ConcFinish(i, result) ==
  /\ pc' = [pc EXCEPT ![i] = "done"]
  /\ outcome' = [outcome EXCEPT ![i] = result]
  /\ envelope' = [envelope EXCEPT ![i] = ToolEnvelope(op[i], args[i], result)]
  /\ timers' = [timers EXCEPT ![i] = 0]
  /\ UNCHANGED <<urlIdx, calls, requests>>

\* the adapter call of slot i throws e: getSourceCode goes on to its next
\* candidate, and after the last one tests its local `response`; every other
\* operation wraps e
ConcFails(i, cause, status, e) ==
  /\ thrown' = [thrown EXCEPT ![i] = Append(@, Logged(cause, status, e))]
  /\ UNCHANGED <<op, args, response>>
  /\ IF TriesNext(op[i], args[i], urlIdx[i])
     THEN ConcStart(i, op[i], args[i], urlIdx[i] + 1)
     ELSE /\ head' = head
          /\ IF op[i] = "getSourceCode" /\ response[Frame(i)] # NoResponse
             THEN ConcFinish(i, OutcomeOf(op[i], args[i], response[Frame(i)]))
             ELSE ConcFinish(i, Threw(Wrapped(op[i], args[i],
                                              FailureMessage(op[i], args[i], e))))

ConcInvoke(i, o, a) ==
  /\ pc[i] = "idle"
  /\ op' = [op EXCEPT ![i] = o]
  /\ args' = [args EXCEPT ![i] = a]
  /\ response' = [response EXCEPT ![Frame(i)] = NoResponse]
  /\ thrown' = thrown
  /\ ConcStart(i, o, a, 1)

ConcHeadersArrive(i, status, ctype) ==
  /\ pc[i] = "awaitHeaders"
  /\ IF ~IsOk(status)
     THEN ConcFails(i, "status", status, HttpError(status))
     ELSE /\ pc' = [pc EXCEPT ![i] = "awaitBody"]
          /\ head' = [head EXCEPT ![i] = [status |-> status, ctype |-> ctype,
                                          body |-> NoBody]]
          /\ timers' = [timers EXCEPT ![i] = 0]
          /\ UNCHANGED <<op, args, urlIdx, calls, requests, response, thrown,
                         outcome, envelope>>

ConcTimerFires(i) ==
  /\ pc[i] = "awaitHeaders"
  /\ timers[i] = 1
  /\ ConcFails(i, "abort", 0, AbortError)

ConcBodyArrives(i, body) ==
  /\ pc[i] = "awaitBody"
  /\ IF IsJson(head[i].ctype) /\ JsonFails(body)
     THEN ConcFails(i, "json", head[i].status, JsonSyntaxError)
     ELSE /\ response' = [response EXCEPT ![Frame(i)] =
                            FetchResponse(head[i].status, head[i].ctype, body)]
          /\ head' = [head EXCEPT ![i].body = body]
          /\ ConcFinish(i, OutcomeOf(op[i], args[i],
                                     FetchResponse(head[i].status, head[i].ctype, body)))
          /\ UNCHANGED <<op, args, thrown>>

ConcReturn(i) ==
  /\ pc[i] = "done"
  /\ op' = [op EXCEPT ![i] = "none"]
  /\ args' = [args EXCEPT ![i] = NoArgs]
  /\ pc' = [pc EXCEPT ![i] = "idle"]
  /\ urlIdx' = [urlIdx EXCEPT ![i] = 0]
  /\ calls' = [calls EXCEPT ![i] = <<>>]
  /\ requests' = [requests EXCEPT ![i] = <<>>]
  /\ head' = [head EXCEPT ![i] = [status |-> 0, ctype |-> NoType, body |-> NoBody]]
  /\ response' = [response EXCEPT ![Frame(i)] = NoResponse]
  /\ thrown' = [thrown EXCEPT ![i] = <<>>]
  /\ outcome' = [outcome EXCEPT ![i] = NoOutcome]
  /\ envelope' = [envelope EXCEPT ![i] = NoEnvelope]
  /\ timers' = timers

ConcNext ==
  \/ \E i \in Slots :
       \/ ConcInvoke(i, "getSourceCode",
                     [NoArgs EXCEPT !.crateName = <<"tokio">>, !.path = <<"lib.rs">>])
       \/ ConcInvoke(i, "getCrateDocumentation",
                     [NoArgs EXCEPT !.crateName = <<"tokio">>])
       \/ ConcInvoke(i, "searchCrates", [NoArgs EXCEPT !.query = <<"r", "u", "n">>])
  \/ \E i \in Slots : \E s \in {200, 404} : \E c \in {HtmlType, JsonType} :
       ConcHeadersArrive(i, s, c)
  \/ \E i \in Slots : ConcTimerFires(i)
  \/ \E i \in Slots :
       \E b \in {HtmlBody(<<PreRust>>), HtmlBody(<<MainContent>>),
                 JsonObjectBody(SearchObj)} :
         ConcBodyArrives(i, b)
  \/ \E i \in Slots : ConcReturn(i)

ConcurrentSpec == ConcInit /\ [][ConcNext]_vars

\* ------------------------------------------------------------------------
\* Properties
\* ------------------------------------------------------------------------

\* every adapter call of the invocation failed: no response reached the operation
AllCallsFailed == pc = "done" /\ calls # <<>> /\ response = NoResponse

\* C1: getSourceCode: when the request for every candidate pattern failed, the
\* operation fails with an error whose message names each of the three
\* patterns; when a candidate succeeded, every call before it failed and no
\* call follows it
SourceCodeNamesAllOrStops ==
  op = "getSourceCode" =>
    /\ AllCallsFailed =>
         /\ Len(calls) = 3
         /\ Len(thrown) = 3
         /\ outcome.kind = "error"
         /\ \A i \in 1..Len(calls) : Includes(outcome.message, calls[i])
    /\ response # NoResponse =>
         /\ pc = "done"
         /\ Len(calls) = Len(thrown) + 1

\* all three candidates of a getSourceCode invocation failed
SourceCodeAllFailed ==
  op = "getSourceCode" /\ AllCallsFailed /\ Len(thrown) = 3

\* the fixed order of the source-view paths: crate-qualified, "source" under
\* /crate, crate-unqualified
FixedSourcePaths(a) ==
  LET c == a.crateName
      v == IF a.version = Undefined \/ a.version = <<>> THEN <<"latest">> ELSE a.version
  IN << <<"/">> \o c \o <<"/">> \o v \o <<"/", "src", "/">> \o c \o <<"/">> \o a.path,
        <<"/", "crate", "/">> \o c \o <<"/">> \o v \o <<"/", "source", "/">> \o a.path,
        <<"/">> \o c \o <<"/">> \o v \o <<"/", "source", "/">> \o a.path >>

\* C2: getSourceCode hands its adapter a prefix of the fixed sequence of
\* candidate paths, one fetch each, and the response it parses is that of the
\* first candidate that did not fail
SourceCodeFixedOrder ==
  op = "getSourceCode" =>
    /\ Len(calls) <= 3
    /\ calls = SubSeq(FixedSourcePaths(args), 1, Len(calls))
    /\ requests = [i \in 1..Len(calls) |->
                     buildUrl(FixedSourcePaths(args)[i], Params(op, args), DocsRsBase)]
    /\ urlIdx = Len(calls)
    /\ response # NoResponse => urlIdx = Len(thrown) + 1

\* the third candidate answered after the first two failed
SourceCodeThirdCandidateParsed ==
  /\ op = "getSourceCode"
  /\ pc = "done"
  /\ response # NoResponse
  /\ Len(thrown) = 2
  /\ outcome.kind = "ok"

\* a required argument of the operation is missing, empty or blank
RequiredFieldMissing(o, a) ==
  \/ o \in Ops \ {"searchCrates"} /\ IsBlank(a.crateName)
  \/ o \in {"searchCrates", "searchSymbols"} /\ IsBlank(a.query)
  \/ o \in {"getTypeInfo", "getSourceCode"} /\ IsBlank(a.path)

\* C3: an invocation with a missing, empty or blank required argument fails
\* without a call to the adapter and without a fetch
ValidationBeforeNetwork ==
  (op # "none" /\ RequiredFieldMissing(op, args)) =>
    /\ calls = <<>>
    /\ requests = <<>>
    /\ pc = "done" => outcome.kind = "error"

\* the response reached the operation and failed its shape check
ShapeFailed == response # NoResponse /\ ShapeError(op, response) # <<>>

\* the response passed the shape check and the operation failed to read it
ParseFailed ==
  /\ response # NoResponse
  /\ ShapeError(op, response) = <<>>
  /\ ~Parse(op, args, response).ok

\* C4 as claimed: whenever something downstream of an operation failed (the
\* adapter threw, the shape check or the parsing failed) the operation throws
\* an error whose message embeds the message of each such cause
EveryFailureEmbedsCause ==
  pc = "done" =>
    /\ thrown # <<>> =>
         /\ outcome.kind = "error"
         /\ \A i \in 1..Len(thrown) : Includes(outcome.message, thrown[i].error.message)
    /\ ShapeFailed =>
         outcome.kind = "error" /\ Includes(outcome.message, ShapeError(op, response))
    /\ ParseFailed =>
         /\ outcome.kind = "error"
         /\ Includes(outcome.message, Parse(op, args, response).message)

\* C4 as amended: every operation other than getSourceCode makes one adapter
\* call and, when it throws, throws its prefix followed by the cause's message;
\* every operation, getSourceCode too, does so for a shape or parse failure;
\* getSourceCode discards the failures of its candidate requests: when all
\* failed it throws the list of attempted URLs instead of a cause
FailureEmbedsCauseButProbing ==
  pc = "done" =>
    /\ (op # "getSourceCode" /\ thrown # <<>>) =>
         /\ Len(thrown) = 1
         /\ outcome.kind = "error"
         /\ outcome.message = ErrorPrefix(op, args) \o thrown[1].error.message
    /\ ShapeFailed =>
         /\ outcome.kind = "error"
         /\ outcome.message = ErrorPrefix(op, args) \o ShapeError(op, response)
    /\ ParseFailed =>
         /\ outcome.kind = "error"
         /\ outcome.message = ErrorPrefix(op, args) \o Parse(op, args, response).message
    /\ (op = "getSourceCode" /\ AllCallsFailed) =>
         /\ outcome.kind = "error"
         /\ Includes(outcome.message,
                     <<"Could not find source code at any of the attempted URLs: ">>)

\* an operation with a single request ended on an HTTP error status
SingleRequestFailed ==
  /\ pc = "done"
  /\ op = "getTypeInfo"
  /\ thrown # <<>>
  /\ thrown[1].cause = "status"

\* getCrateDocumentation got a text page in which #main-content matches nothing
NoMainContent ==
  /\ op = "getCrateDocumentation"
  /\ pc = "done"
  /\ response # NoResponse
  /\ response.contentType = "text"
  /\ ById(response.data.page, "main-content") = <<>>

\* some node of the page has text that is not blank
HasText(page) == \E i \in 1..Len(page) : Trim(TextOf(<<page[i]>>)) # <<>>

\* C5 as claimed: with a text page in which #main-content matches nothing,
\* getCrateDocumentation returns the whole page as markdown, and that
\* markdown is not empty
FallbackTextNonEmpty ==
  NoMainContent =>
    /\ outcome.kind = "ok"
    /\ outcome.value = Turndown(response.data.page)
    /\ outcome.value # <<>>

\* C5 as amended: with a text page in which #main-content matches nothing,
\* getCrateDocumentation returns the whole page as markdown; the markdown is
\* not empty when the page has text that is not blank
FallbackTextNonEmptyIfPageHasText ==
  NoMainContent =>
    /\ outcome.kind = "ok"
    /\ outcome.value = Turndown(response.data.page)
    /\ HasText(response.data.page) => outcome.value # <<>>

\* the fallback ran on a page with text
FallbackOnPageWithText == NoMainContent /\ HasText(response.data.page)

\* the n-th adapter call of the invocation is in flight
InCall(n) == pc \in {"awaitHeaders", "awaitBody"} /\ Len(calls) = n

\* C6: every adapter call settles, whatever the upstream does
AdapterCallSettles == \A n \in 1..3 : InCall(n) ~> ~InCall(n)

\* C7: a non-2xx status never yields a response; the error thrown for it
\* carries the status code and differs from the error of a failed connection
\* and from the error of an abort
NonOkStatusIsDistinctError ==
  /\ response # NoResponse => IsOk(response.status)
  /\ pc = "awaitBody" => IsOk(head.status)
  /\ \A i \in 1..Len(thrown) :
       thrown[i].cause = "status" =>
         /\ ~IsOk(thrown[i].status)
         /\ Includes(thrown[i].error.message, <<ToString(thrown[i].status)>>)
         /\ \A j \in 1..Len(thrown) :
              thrown[j].cause \in {"transport", "abort"} =>
                /\ thrown[j].error.message # thrown[i].error.message
                /\ thrown[j].error.name # thrown[i].error.name

\* one invocation met an HTTP error, a failed connection and an abort
ThreeKindsOfFailure ==
  /\ Len(thrown) = 3
  /\ {thrown[i].cause : i \in 1..3} = {"status", "transport", "abort"}

\* C8: one fetch per adapter call, and no URL fetched twice in an invocation
NoRetries ==
  /\ Len(requests) = Len(calls)
  /\ \A i, j \in 1..Len(requests) : i # j => requests[i] # requests[j]

\* the class of response the operation expects is not the one it declares
ClassMismatch ==
  \/ op \in {"searchCrates", "getCrateDetails", "getCrateVersions"} /\ ~IsJson(head.ctype)
  \/ op \in {"getCrateDocumentation", "getTypeInfo", "getFeatureFlags",
             "getSourceCode", "searchSymbols"} /\ IsJson(head.ctype)

\* C9: a response of the wrong class, once the adapter has read it, makes the
\* operation fail with the explicit shape error
ShapeMismatchIsExplicit ==
  (pc = "done" /\ response # NoResponse /\ ClassMismatch) =>
    /\ outcome.kind = "error"
    /\ \/ Includes(outcome.message, ExpectedJson)
       \/ Includes(outcome.message, ExpectedHtml)

\* C10: an invocation without a version asks for what the same invocation with
\* version "latest" asks for, and does not fail for lack of a version
VersionDefaultsToLatest ==
  (/\ pc = "done"
   /\ op \in {"getCrateDocumentation", "getTypeInfo", "getFeatureFlags",
              "getSourceCode", "searchSymbols"}
   /\ args.version = Undefined
   /\ ~RequiredFieldMissing(op, args)) =>
    /\ outcome.message # VersionRequired
    /\ calls # <<>>
    /\ calls[1] = Candidates(op, [args EXCEPT !.version = <<"latest">>])[1]

\* C11: getFeatureFlags returns no entry named "default" and no entry with an
\* empty name, whatever the features page
NoDefaultNoEmptyFeature ==
  (op = "getFeatureFlags" /\ pc = "done" /\ outcome.kind = "ok") =>
    \A i \in 1..Len(outcome.value) :
      outcome.value[i].name # "default" /\ outcome.value[i].name # ""

\* a features page with a feature next to the "default" section or next to a
\* heading without id was read
FeaturesPageWithDefaultSection ==
  /\ op = "getFeatureFlags"
  /\ pc = "done"
  /\ outcome.kind = "ok"
  /\ Len(outcome.value) = 1
  /\ \E i \in 1..Len(response.data.page) :
       response.data.page[i] \in {FeatureDefault, FeatureHeading}

\* the entries the version list of the page read gives
PrimaryOfPage == PrimaryVersions(VersionItems(response.data.page))

\* C12: DocsRsService.getCrateVersions returns the entries of the version list
\* when there is one; the anchor scan runs only when the list gave no entry,
\* and then no two returned entries have the same version and none is "latest"
VersionFallbackDedups ==
  (op = "DocsRsService.getCrateVersions" /\ pc = "done" /\ outcome.kind = "ok") =>
    /\ PrimaryOfPage # <<>> => outcome.value = PrimaryOfPage
    /\ PrimaryOfPage = <<>> =>
         /\ \A i, j \in 1..Len(outcome.value) :
              i # j => outcome.value[i].version # outcome.value[j].version
         /\ \A i \in 1..Len(outcome.value) : outcome.value[i].version # <<"latest">>

\* the anchor scan ran over two anchors of the crate and kept one version
AnchorScanDroppedOne ==
  /\ op = "DocsRsService.getCrateVersions"
  /\ pc = "done"
  /\ outcome.kind = "ok"
  /\ PrimaryOfPage = <<>>
  /\ Len(CrateAnchors(response.data.page, args.crateName)) = 2
  /\ Len(outcome.value) = 1

\* C13: for a non-empty query, searchCrates returns at most as many items as
\* the per-page value it asked for (10 when absent), and a total that is at
\* least the number of items
SearchCountsBounded ==
  (op = "searchCrates" /\ pc = "done" /\ outcome.kind = "ok" /\ ~IsBlank(args.query)) =>
    /\ Len(outcome.value.crates) <= Params(op, args).per_page
    /\ outcome.value.totalCount >= Len(outcome.value.crates)

\* the marker classes from the highest priority to the lowest, each with the
\* kind it stands for
KindPriority ==
  << <<"struct", "struct">>, <<"enum", "enum">>, <<"trait", "trait">>,
     <<"fn", "function">>, <<"macro", "macro">>, <<"type", "type">>,
     <<"mod", "module">> >>

\* the priorities of the markers present on the page getTypeInfo read
MarkersPresent ==
  {i \in 1..Len(KindPriority) :
     \E k \in 1..Len(Nodes(response.data.page)) :
       Nodes(response.data.page)[k].cls = KindPriority[i][1]}

\* C14: the kind getTypeInfo returns is that of the highest-priority marker
\* present on the page, "other" when there is none
TypeKindByPriority ==
  (op = "getTypeInfo" /\ pc = "done" /\ outcome.kind = "ok") =>
    IF MarkersPresent = {} THEN outcome.value.kind = "other"
    ELSE \E i \in MarkersPresent :
           /\ \A j \in MarkersPresent : i <= j
           /\ outcome.value.kind = KindPriority[i][2]

\* a page with the struct marker after a marker of lower priority was read
StructMarkerSecond ==
  /\ op = "getTypeInfo"
  /\ pc = "done"
  /\ outcome.kind = "ok"
  /\ Len(response.data.page) = 2
  /\ response.data.page[1].cls = "enum"
  /\ response.data.page[2].cls = "struct"
  /\ outcome.value.kind = "struct"

\* two letters that differ at most in case
SameLetter(x, y) ==
  x = y \/ {x, y} \in {{"R", "r"}, {"F", "f"}, {"S", "s"}}

\* name contains q as a substring, letter case aside
ContainsIgnoringCase(name, q) ==
  \E i \in 0..(Len(name) - Len(q)) :
    \A k \in 1..Len(q) : SameLetter(name[i + k], q[k])

RECURSIVE IndexEntries(_, _)
\* the full names of the entries of the all-symbols index: for every heading
\* with an id that a list of class all-items follows, the anchors of the
\* list's items, from the i-th top-level element on
IndexEntries(page, i) ==
  IF i >= Len(page) THEN <<>>
  ELSE (IF /\ page[i].tag = "h3" /\ page[i].id # ""
           /\ page[i + 1].tag = "ul" /\ page[i + 1].cls = "all-items"
        THEN [k \in 1..Len(page[i + 1].kids) |-> Trim(TextOf(<<page[i + 1].kids[k]>>))]
        ELSE <<>>)
       \o IndexEntries(page, i + 1)

\* C15: searchSymbols returns, in page order, exactly the entries of the
\* index whose full name contains the query, letter case aside
SymbolsAreTheMatches ==
  (op = "searchSymbols" /\ pc = "done" /\ outcome.kind = "ok") =>
    [k \in 1..Len(outcome.value) |-> outcome.value[k].path]
      = SelectSeq(IndexEntries(response.data.page, 1),
                  LAMBDA n : ContainsIgnoringCase(n, args.query))

\* the query "run" matched rt::Run and not fs::F
RunMatchedRun ==
  /\ op = "searchSymbols"
  /\ pc = "done"
  /\ outcome.kind = "ok"
  /\ args.query = <<"r", "u", "n">>
  /\ Len(IndexEntries(response.data.page, 1)) = 2
  /\ Len(outcome.value) = 1
  /\ outcome.value[1].name = <<"R", "u", "n">>

SearchVersionPopulated ==
  (op = "searchCrates" /\ pc = "done" /\ outcome.kind = "ok") =>
    \A i \in 1..Len(outcome.value.crates) :
      /\ outcome.value.crates[i].name \notin {Undefined, <<>>}
      /\ outcome.value.crates[i].version \notin {Undefined, <<>>}
      /\ response.data.obj.crates[i].max_version = Undefined =>
           outcome.value.crates[i].version = <<"unknown">>

\* C19: searchSymbols answers a 404 of the index with the empty list, and
\* throws for every other failure of its request
SymbolsEmptyOn404 ==
  (op = "searchSymbols" /\ pc = "done" /\ thrown # <<>>) =>
    IF thrown[1].cause = "status" /\ thrown[1].status = 404
    THEN outcome.kind = "ok" /\ outcome.value = <<>>
    ELSE outcome.kind = "error"

\* the documentation URL as a function of crate name, version and path
DocumentationUrlOf(crateName, version, path) ==
  <<"https:", "/", "/", "docs.rs">> \o crateName \o <<"/">>
  \o (IF version \in {Undefined, <<>>} THEN <<"latest">> ELSE version)
  \o <<"/">> \o crateName \o <<"/">> \o path

\* C20: every result of getTypeInfo has a documentation URL, and the URL is
\* determined by crate name, version and path, whatever page was read
DocumentationUrlFromArgs ==
  (op = "getTypeInfo" /\ pc = "done" /\ outcome.kind = "ok") =>
    /\ outcome.value.documentationUrl \notin {Undefined, <<>>}
    /\ outcome.value.documentationUrl
         = DocumentationUrlOf(args.crateName, args.version, args.path)

\* getTypeInfo returned from a page that gave no marker, no description and
\* no source link
TypeInfoWithoutExtraction ==
  /\ op = "getTypeInfo"
  /\ pc = "done"
  /\ outcome.kind = "ok"
  /\ outcome.value.kind = "other"
  /\ outcome.value.description = Undefined
  /\ outcome.value.sourceUrl = Undefined
  /\ args.crateName = <<"tokio">>

\* the outcome of the invocation in slot i, had it run alone with the answers
\* the upstream gave to its own requests
OutcomeAlone(i) ==
  IF head[i].body # NoBody
  THEN OutcomeOf(op[i], args[i],
                 FetchResponse(head[i].status, head[i].ctype, head[i].body))
  ELSE IF op[i] = "getSourceCode" THEN Threw(Wrapped(op[i], args[i], CouldNotFind(args[i])))
  ELSE Threw(Wrapped(op[i], args[i], thrown[i][Len(thrown[i])].error.message))

\* C17: whatever the interleaving of two invocations, each ends with the
\* outcome it would have alone, given the answers to its own requests
IndependentOutcomes ==
  \A i \in Slots : pc[i] = "done" => outcome[i] = OutcomeAlone(i)

\* one getSourceCode ended with a result while another is at its last
\* candidate after two failures
OneDoneOtherProbing ==
  /\ op[1] = "getSourceCode" /\ op[2] = "getSourceCode"
  /\ pc[1] = "done" /\ outcome[1].kind = "ok"
  /\ pc[2] = "awaitHeaders" /\ urlIdx[2] = 3

\* C21: every entry getCrateVersions returns has a version and a boolean
\* yanked flag, false where the registry gave none, in the registry's order
VersionsWellFormed ==
  (op = "getCrateVersions" /\ pc = "done" /\ outcome.kind = "ok") =>
    /\ Len(outcome.value) = Len(response.data.obj.versions)
    /\ \A i \in 1..Len(outcome.value) :
         /\ outcome.value[i].version = response.data.obj.versions[i].num
         /\ outcome.value[i].version # Undefined
         /\ outcome.value[i].isYanked \in {<<"true">>, <<"false">>}
         /\ response.data.obj.versions[i].yanked = Undefined =>
              outcome.value[i].isYanked = <<"false">>

\* C22: the documentation tool returns the inner markup of the first selector
\* of its list whose match has content, and the "not found" text only when no
\* selector has one: a match without content does not end the search
FirstNonEmptySelectorWins ==
  (op = "getCrateDocumentation" /\ pc = "done" /\ ~envelope.isError) =>
    LET selections == Selections(args.crateName, outcome.value)
        full == {k \in 1..Len(selections) : HasInnerHtml(selections[k])}
    IN IF full = {} THEN envelope.text = ContentNotFound
       ELSE \E k \in full :
              /\ \A j \in full : k <= j
              /\ envelope.text = InnerHtml(selections[k])

\* C23: getFeatureFlags marks a feature enabled exactly when the text of its
\* heading contains "(default)" or the node after the heading carries the
\* class is-default-feature, on itself or on a descendant
EnabledIffDefaultMarker ==
  (op = "getFeatureFlags" /\ pc = "done" /\ outcome.kind = "ok") =>
    LET page == response.data.page
        hs == SelectSeq([i \in 1..Len(page) |-> i],
                        LAMBDA i : page[i].tag = "h3" /\ page[i].id \notin {"", "default"})
    IN /\ Len(outcome.value) = Len(hs)
       /\ \A k \in 1..Len(hs) :
            outcome.value[k].enabled <=>
              \/ Includes(page[hs[k]].text, <<"(default)">>)
              \/ /\ hs[k] < Len(page)
                 /\ ByClass(<<page[hs[k] + 1]>>, "is-default-feature") # <<>>

\* C24: a response the adapter returned has the tag "json" and structured
\* data exactly when the content-type header said JSON, and the tag "text"
\* and a string otherwise, a missing header included
ClassificationAgrees ==
  response # NoResponse =>
    /\ response.contentType = "json" <=> head.ctype = JsonType
    /\ response.contentType = "text" <=> head.ctype \in {HtmlType, NoType}
    /\ response.contentType = "json" => response.data.type = "object"
    /\ response.contentType = "text" => response.data.type = "string"

\* what follows the last "::" of a full name; the whole name when it has none
AfterLastSeparator(s) ==
  LET seps == {i \in 1..Len(s) : s[i] = "::"}
  IN IF seps = {} THEN s
     ELSE SubSeq(s, (CHOOSE i \in seps : \A j \in seps : j <= i) + 1, Len(s))

\* C25 as stated: the name of every returned symbol is the last segment of its
\* full name, its path is the full name, and the name is not empty
SymbolNameIsLastSegment ==
  (op = "searchSymbols" /\ pc = "done" /\ outcome.kind = "ok") =>
    \A k \in 1..Len(outcome.value) :
      /\ outcome.value[k].name = AfterLastSeparator(outcome.value[k].path)
      /\ \E n \in 1..Len(IndexEntries(response.data.page, 1)) :
           IndexEntries(response.data.page, 1)[n] = outcome.value[k].path
      /\ outcome.value[k].path # <<>> => outcome.value[k].name # <<>>

\* C25: the name of every returned symbol is the last segment of its full
\* name when that segment is not empty and the full name otherwise, its path
\* is the full name, and the name is not empty
SymbolNameIsLastSegmentOrFullName ==
  (op = "searchSymbols" /\ pc = "done" /\ outcome.kind = "ok") =>
    \A k \in 1..Len(outcome.value) :
      /\ outcome.value[k].name =
           IF AfterLastSeparator(outcome.value[k].path) = <<>> THEN outcome.value[k].path
           ELSE AfterLastSeparator(outcome.value[k].path)
      /\ \E n \in 1..Len(IndexEntries(response.data.page, 1)) :
           IndexEntries(response.data.page, 1)[n] = outcome.value[k].path
      /\ outcome.value[k].path # <<>> => outcome.value[k].name # <<>>

\* a search returned rt::Run under the name Run and run:: under its full name
SymbolWithTrailingSeparator ==
  /\ op = "searchSymbols"
  /\ pc = "done"
  /\ outcome.kind = "ok"
  /\ \E k \in 1..Len(outcome.value) :
       outcome.value[k].name = <<"r", "u", "n", "::">>

\* C26: the total count searchCrates returns is the total the registry
\* reported, and the number of items returned when the registry reported none
TotalCountFromUpstream ==
  (op = "searchCrates" /\ pc = "done" /\ outcome.kind = "ok") =>
    /\ outcome.value.totalCount # NoNumber
    /\ outcome.value.totalCount =
         IF response.data.obj.total = NoNumber THEN Len(outcome.value.crates)
         ELSE response.data.obj.total

\* C27: every request of an invocation goes to the host of the operation's
\* adapter, and a request to the registry stays under its base path /api/v1/
OriginConfined ==
  \A i \in 1..Len(requests) :
    /\ requests[i].host = ClientBase(op).host
    /\ LET dir == ClientBase(op).dir
       IN /\ Len(requests[i].path) >= Len(dir)
          /\ SubSeq(requests[i].path, 1, Len(dir)) = dir

\* C28: when getCrateDocumentation returned documentation text, the tool
\* get_crate_documentation hands documentation to its caller, not the
\* "not found" text
DocumentationReachesCaller ==
  (op = "getCrateDocumentation" /\ pc = "done" /\ outcome.kind = "ok"
     /\ outcome.value # <<>>) =>
    /\ ~envelope.isError
    /\ envelope.text # ContentNotFound

\* C29: the documentation URL of a getTypeInfo result is the URL the operation
\* requested from the documentation site
DocumentationUrlIsRequestedUrl ==
  (op = "getTypeInfo" /\ pc = "done" /\ outcome.kind = "ok") =>
    LET u == ParseUrl(outcome.value.documentationUrl, DocsRsBase)
    IN /\ u.host = requests[1].host
       /\ u.path = requests[1].path

\* C30: no abort timer of an adapter call that has settled is pending: the
\* only timer there can be is that of the call awaiting its response
NoTimerAfterSettled ==
  timers = IF pc = "awaitHeaders" THEN 1 ELSE 0

====
